---- MODULE Spec2Model ----
(***************************************************************************)
(* A model of fairdetect.FairDetect (src/fairdetect/__init__.py): the       *)
(* fairness audit of a binary classifier over a sensitive column.           *)
(*                                                                          *)
(* Data frames are modelled with their column set and their indexed rows,   *)
(* so that adding a column, filtering and copying are distinguishable.      *)
(* Rates are exact fractions [n, d]; d = 0 stands for an undefined (NaN)    *)
(* value.  A p-value is a multiple of 1/PScale, or NaN.                     *)
(***************************************************************************)
EXTENDS Integers, Sequences, FiniteSets, TLC

VARIABLES
    X_test,     \* the caller's feature frame (self.X_test)
    y_test,     \* the caller's true labels (self.y_test), aligned with X_test
    model,      \* the classifier: model[i] is what predict gives for row i
    labels,     \* the label map the caller passes (sensitive value -> name)
    call,       \* the last method called, with its arguments
    ret,        \* what that call returned (or the exception it raised)
    out         \* what that call computed, printed and charted, in order

vars == <<X_test, y_test, model, labels, call, ret, out>>

----------------------------------------------------------------------------
(* Bounds of the model *)

MaxRows == 2
PScale == 200

SensVals == {0, 1, 2}          \* values the sensitive column may hold
Targets == {0, 1}              \* binary target / predicted label
Names == {"A", "B"}            \* display names a label map may give
Sensitive == "s"               \* the name of the sensitive column

NaN == 0 - 1                   \* an undefined p-value
NoFrame == [cols |-> {}, rows |-> <<>>]

----------------------------------------------------------------------------
(* Small helpers *)

Abs(x) == IF x < 0 THEN 0 - x ELSE x

Max2(a, b) == IF a >= b THEN a ELSE b

RECURSIVE SumSeq(_)
SumSeq(s) == IF s = <<>> THEN 0 ELSE Head(s) + SumSeq(Tail(s))

RECURSIVE ProdSeq(_)
ProdSeq(s) == IF s = <<>> THEN 1 ELSE Head(s) * ProdSeq(Tail(s))

RECURSIVE SortedSeq(_)
SortedSeq(S) ==
    IF S = {} THEN <<>>
    ELSE LET m == CHOOSE x \in S : \A z \in S : x <= z
         IN  <<m>> \o SortedSeq(S \ {m})

Range(s) == {s[i] : i \in 1..Len(s)}

\* let x = v in F(x), with v evaluated once
With(v, F(_)) == CHOOSE y \in {F(x) : x \in {v}} : TRUE

Count(s, v) == Cardinality({i \in 1..Len(s) : s[i] = v})

----------------------------------------------------------------------------
(* pandas.DataFrame, as far as the audit uses it *)

\* frame[c]: the column c as a sequence aligned with the rows
Col(frame, c) == [i \in 1..Len(frame.rows) |-> frame.rows[i].v[c]]

HasCol(frame, c) == c \in frame.cols

\* frame[c] = vals (vals aligned with the rows): adds or overwrites column c
SetCol(frame, c, vals) ==
    [cols |-> frame.cols \cup {c},
     rows |-> [i \in 1..Len(frame.rows) |->
                 [ix |-> frame.rows[i].ix,
                  v  |-> [k \in frame.cols \cup {c} |->
                            IF k = c THEN vals[i] ELSE frame.rows[i].v[k]]]]]

\* col == v, a != b and m1 & m2: boolean masks aligned with the rows
EqMask(col, v) == [i \in DOMAIN col |-> col[i] = v]

NeMask(a, b) == [i \in DOMAIN a |-> a[i] # b[i]]

AndMask(m1, m2) == [i \in DOMAIN m1 |-> m1[i] /\ m2[i]]

RECURSIVE MaskRows(_, _)
MaskRows(rows, mask) ==
    IF rows = <<>> THEN <<>>
    ELSE (IF Head(mask) THEN <<Head(rows)>> ELSE <<>>)
         \o MaskRows(Tail(rows), Tail(mask))

\* frame[mask]: the rows where the mask is true, with their index, in order;
\* an all-false mask gives an empty frame, never an error
Filter(frame, mask) ==
    [cols |-> frame.cols, rows |-> MaskRows(frame.rows, mask)]

\* frame.index: the row labels
Index(frame) == {frame.rows[i].ix : i \in 1..Len(frame.rows)}

----------------------------------------------------------------------------
(* Objects and references: a heap of frames, so that a copy and an alias    *)
(* differ.  "X_test" is the caller's frame.                                 *)

DataFrameAlias(h, src) == [heap |-> h, ref |-> src]

\* X_test.copy(): a new object with the same contents
DataFrameCopy(h, src) ==
    [heap |-> [id \in DOMAIN h \cup {"full_table"} |->
                 IF id = "full_table" THEN h[src] ELSE h[id]],
     ref  |-> "full_table"]

\* obj[c] = vals
SetItem(h, ref, c, vals) == [h EXCEPT ![ref] = SetCol(@, c, vals)]

\* model.predict(X): one label per row of X
Predict(m, frame) == [i \in 1..Len(frame.rows) |-> m[i]]

----------------------------------------------------------------------------
(* Events of a call, in order *)

Ev(kind, what) == [kind |-> kind, what |-> what, key |-> "", p |-> NaN, text |-> ""]

\* a printed verdict: the site, the metric it is about, the p-value and the text
EvVerdict(site, key, p, text) ==
    [kind |-> "verdict", what |-> site, key |-> key, p |-> p, text |-> text]

----------------------------------------------------------------------------
(* p-values and the chi-square tests of scipy.stats                         *)

\* p <= num/den with the undefined p-value ordered below every number
LeqPOrdered(p, num, den) == p * den <= num * PScale

\* p <= num/den as the code's float comparison; every comparison with NaN
\* is false
LeqP(p, num, den) == p # NaN /\ p * den <= num * PScale

\* Upper critical values of the chi-square distribution, times 1000, by
\* degrees of freedom: the statistic at which the p-value equals 0.10, 0.05
\* and 0.01.
Crit ==
    [dof \in 1..4 |->
        CASE dof = 1 -> [a10 |-> 2706, a05 |-> 3841, a01 |-> 6635]
          [] dof = 2 -> [a10 |-> 4605, a05 |-> 5991, a01 |-> 9210]
          [] dof = 3 -> [a10 |-> 6251, a05 |-> 7815, a01 |-> 11345]
          [] dof = 4 -> [a10 |-> 7779, a05 |-> 9488, a01 |-> 13277]]

\* chi2.sf(num/den, dof), rounded up to the next of the levels 0.01, 0.05,
\* 0.10 and 1: the levels the verdicts compare a p-value with, so the
\* rounding changes no verdict.
Chi2Sf(num, den, dof) ==
    IF num * 1000 >= Crit[dof].a01 * den THEN PScale \div 100
    ELSE IF num * 1000 >= Crit[dof].a05 * den THEN PScale \div 20
    ELSE IF num * 1000 >= Crit[dof].a10 * den THEN PScale \div 10
    ELSE PScale

\* scipy.stats.chisquare(f_obs)[1] for f_obs = 100 * rates: goodness of fit
\* against the mean of the observations, with len(f_obs) - 1 degrees of
\* freedom.  rates is a sequence of fractions [n, d] with d > 0.
\* With a_i = n_i * D / d_i and D the product of the d_i, the statistic is
\* 100 * (k * sum(a_i^2) - sum(a_i)^2) / (D * sum(a_i)).
\* One observation gives zero degrees of freedom and all-zero observations
\* give 0/0: the p-value is NaN in both cases.
ChiSquareStat(k, D, S1, S2) ==
    IF k <= 1 \/ S1 = 0 THEN NaN
    ELSE Chi2Sf(100 * (k * S2 - S1 * S1), D * S1, k - 1)

ChiSquareP(rates) ==
    With(ProdSeq([i \in 1..Len(rates) |-> rates[i].d]), LAMBDA D :
    With([i \in 1..Len(rates) |-> (rates[i].n * D) \div rates[i].d], LAMBDA a :
        ChiSquareStat(Len(rates), D, SumSeq(a),
                      SumSeq([i \in 1..Len(a) |-> a[i] * a[i]]))))

\* pd.crosstab(rowcol, colcol): counts by (row value, column value), for
\* the values that occur
Crosstab(rs, cs) ==
    [g \in Range(rs) |->
        [c \in Range(cs) |->
            Cardinality({i \in 1..Len(rs) : rs[i] = g /\ cs[i] = c})]]

RowTotal(table, g) ==
    SumSeq([j \in 1..Cardinality(DOMAIN table[g]) |->
              table[g][SortedSeq(DOMAIN table[g])[j]]])

ColTotal(table, c) ==
    SumSeq([j \in 1..Cardinality(DOMAIN table) |->
              table[SortedSeq(DOMAIN table)[j]][c]])

GrandTotal(table) ==
    SumSeq([j \in 1..Cardinality(DOMAIN table) |->
              RowTotal(table, SortedSeq(DOMAIN table)[j])])

TableCols(table) ==
    IF DOMAIN table = {} THEN {}
    ELSE DOMAIN table[CHOOSE g \in DOMAIN table : TRUE]

\* scipy.stats.chi2_contingency(table)[1]: the test of independence, with
\* (rows-1)*(cols-1) degrees of freedom; zero degrees of freedom give p = 1,
\* one degree of freedom applies Yates' correction (each observed count
\* moves by min(0.5, |expected - observed|) towards its expected count).
\* table comes from Crosstab, so every row and column total is positive.
Chi2ContingencyStat(table, gs, cs, N, R, C, Q) ==
    LET dof == (Len(gs) - 1) * (Len(cs) - 1)
        adbc == table[gs[1]][cs[1]] * table[gs[2]][cs[2]]
                  - table[gs[1]][cs[2]] * table[gs[2]][cs[1]]
        yates == Max2(0, 2 * Abs(adbc) - N)
        terms == SumSeq([i \in 1..Len(gs) |->
                   SumSeq([j \in 1..Len(cs) |->
                     (table[gs[i]][cs[j]] * table[gs[i]][cs[j]] * Q)
                        \div (R[i] * C[j])])])
    IN  IF dof = 0 THEN PScale
        ELSE IF dof = 1 THEN Chi2Sf(N * yates * yates, 4 * Q, 1)
        ELSE Chi2Sf(N * (terms - Q), Q, dof)

Chi2ContingencyP(table) ==
    With(SortedSeq(DOMAIN table), LAMBDA gs :
    With(SortedSeq(TableCols(table)), LAMBDA cs :
    With([i \in 1..Len(gs) |-> RowTotal(table, gs[i])], LAMBDA R :
    With([j \in 1..Len(cs) |-> ColTotal(table, cs[j])], LAMBDA C :
        Chi2ContingencyStat(table, gs, cs, SumSeq(R), R, C,
                            ProdSeq(R) * ProdSeq(C))))))

\* pd.crosstab(..., normalize='index'): each count over its row's total
NormalizeAll(table) ==
    [g \in DOMAIN table |->
        [c \in DOMAIN table[g] |-> [n |-> table[g][c], d |-> GrandTotal(table)]]]

NormalizeIndex(table) ==
    [g \in DOMAIN table |->
        [c \in DOMAIN table[g] |-> [n |-> table[g][c], d |-> RowTotal(table, g)]]]

----------------------------------------------------------------------------
(* The three verdict cascades: the text each one prints for a p-value       *)

\* ability_metrics, per rate
AbilityVerdict(p) ==
    IF LeqP(p, 1, 100) THEN "With 99% Confidence Level, Reject H0"
    ELSE IF LeqP(p, 5, 100) THEN "With 95% Confidence Level, Reject H0"
    ELSE IF LeqP(p, 1, 10) THEN "With 90% Confidence Level, Reject H0"
    ELSE "Accept H0: Disparity is Not Detected"

RepVerdictWrongOrder(p) ==
    IF LeqP(p, 5, 100) THEN "** Reject H0: Significant Relation"
    ELSE IF LeqP(p, 1, 100) THEN "*** Reject H0: Significant Relation"
    ELSE IF LeqP(p, 1, 10) THEN "* Reject H0: Significant Relation"
    ELSE "Accept H0: No Significant Relation"

\* identify_bias, representation
RepVerdict(p) ==
    IF LeqP(p, 1, 100) THEN "*** Reject H0: Significant Relation"
    ELSE IF LeqP(p, 5, 100) THEN "** Reject H0: Significant Relation"
    ELSE IF LeqP(p, 1, 10) THEN "* Reject H0: Significant Relation"
    ELSE "Accept H0: No Significant Relation"

\* identify_bias, precision
PredVerdict(p) ==
    IF LeqP(p, 1, 100) THEN "*** Reject H0: Significant Predictive Disparity"
    ELSE IF LeqP(p, 5, 100) THEN "** Reject H0: Significant Predictive Disparity"
    ELSE IF LeqP(p, 1, 10) THEN "* Reject H0: Significant Predictive Disparity"
    ELSE "Accept H0: No Significant Predictive Disparity"

----------------------------------------------------------------------------
(* Dictionaries keyed by display name, in insertion order                   *)

EmptyDict == [x \in {} |-> NoFrame]

DictSet(d, k, v) == [x \in DOMAIN d \cup {k} |-> IF x = k THEN v ELSE d[x]]

\* for i in labels: the keys in insertion order (ascending, the order in
\* which create_labels inserts a set of small integers)
Keys(lbl) == SortedSeq(DOMAIN lbl)

\* the distinct names of lbl in the order of their first insertion
RECURSIVE NameOrder(_, _, _)
NameOrder(lbl, keys, seen) ==
    IF keys = <<>> THEN <<>>
    ELSE IF lbl[Head(keys)] \in seen THEN NameOrder(lbl, Tail(keys), seen)
    ELSE <<lbl[Head(keys)]>>
           \o NameOrder(lbl, Tail(keys), seen \cup {lbl[Head(keys)]})

----------------------------------------------------------------------------
(* FairDetect.create_labels                                                 *)

\* lines 60-63: one prompt per element of set(X_test[sensitive]); the answer
\* is stored under the value as it is typed, whatever it is
RECURSIVE CreateLabelsLoop(_, _, _)
CreateLabelsLoop(values, answers, sensitive_label) ==
    IF values = <<>> THEN sensitive_label
    ELSE CreateLabelsLoop(Tail(values), Tail(answers),
                          DictSet(sensitive_label, Head(values), Head(answers)))

\* answers: what input() returns, prompt after prompt
CreateLabels(frame, answers) ==
    With(SortedSeq(Range(Col(frame, Sensitive))), LAMBDA values :
        [raised |-> "",
         log |-> [j \in 1..Len(values) |-> Ev("prompt", "Please Enter Label for Group")],
         sensitive_label |-> CreateLabelsLoop(values, answers, EmptyDict)])

----------------------------------------------------------------------------
(* FairDetect.representation                                                *)

\* lines 112-115: every iteration sets the columns 'p' and 't' of full_table
\* and stores the rows of group i under the name labels[i]
RECURSIVE PartitionLoop(_, _, _, _, _, _, _)
PartitionLoop(h, ft, y, lbl, predictions, keys, sens_df) ==
    IF keys = <<>> THEN [heap |-> h, sens_df |-> sens_df]
    ELSE With(SetItem(SetItem(h, ft, "p", predictions), ft, "t", y), LAMBDA h2 :
            PartitionLoop(h2, ft, y, lbl, predictions, Tail(keys),
                DictSet(sens_df, lbl[Head(keys)],
                    Filter(h2[ft], EqMask(Col(h2[ft], Sensitive), Head(keys))))))

\* lines 123-125: the first key whose frequency lookup fails, if any; 0 - 1
\* when every lookup succeeds.  value_counts()[i] is a lookup by value.
RECURSIVE FirstMissing(_, _, _)
FirstMissing(keys, xs, ys) ==
    IF keys = <<>> THEN 0 - 1
    ELSE IF Head(keys) \notin Range(xs) \/ Head(keys) \notin Range(ys)
         THEN Head(keys)
         ELSE FirstMissing(Tail(keys), xs, ys)

\* lines 129-139: ['orange', 'blue'][i] fails for an index outside -2..1
BadColour(keys) == \E j \in 1..Len(keys) : keys[j] > 1 \/ keys[j] < 0 - 2

RepFailed(h, log, exc) ==
    [raised |-> exc, heap |-> h, log |-> Append(log, Ev("raise", exc)),
     table |-> <<>>, cont_table |-> <<>>, sens_df |-> EmptyDict, p |-> NaN]

\* lines 117-119
RepStatLog ==
    <<Ev("stat", "crosstab"), Ev("stat", "chi2_contingency"),
      Ev("stat", "crosstab_normalized")>>

\* lines 117-144, once the partition loop has run
RepresentationTail(loop, ft, xref, y, keys) ==
    IF ~HasCol(loop.heap[ft], Sensitive) \/ ~HasCol(loop.heap[ft], "t")
    THEN RepFailed(loop.heap, <<>>, "KeyError")
    ELSE With(Crosstab(Col(loop.heap[ft], Sensitive), Col(loop.heap[ft], "t")),
              LAMBDA table :
        IF FirstMissing(keys, Col(loop.heap[xref], Sensitive), y) # 0 - 1
        THEN RepFailed(loop.heap, RepStatLog, "KeyError")
        ELSE IF BadColour(keys)
        THEN RepFailed(loop.heap, Append(RepStatLog, Ev("stat", "frequencies")),
                       "IndexError")
        ELSE [raised |-> "", heap |-> loop.heap,
              log |-> RepStatLog \o <<Ev("stat", "frequencies"),
                                      Ev("stat", "chi2_contingency")>>,
              table |-> table, cont_table |-> NormalizeIndex(table),
              sens_df |-> loop.sens_df, p |-> Chi2ContingencyP(table)])

Representation(h0, xref, y, lbl, predictions) ==
    With(DataFrameCopy(h0, xref), LAMBDA c0 :
    With(PartitionLoop(c0.heap, c0.ref, y, lbl, predictions, Keys(lbl), EmptyDict),
         LAMBDA loop :
        RepresentationTail(loop, c0.ref, xref, y, Keys(lbl))))

----------------------------------------------------------------------------
(* FairDetect.ability: fairlearn.metrics.MetricFrame                        *)

\* n/d as sklearn computes a rate: a zero denominator yields 0.0
\* (confusion_matrix(normalize='true') replaces NaN by 0, and
\* precision_score's default zero_division yields 0)
Ratio(n, d) == IF d = 0 THEN [n |-> 0, d |-> 1] ELSE [n |-> n, d |-> d]

\* the number of positions with true label t and predicted label q
Confusion(ts, ps, t, q) ==
    Cardinality({i \in 1..Len(ts) : ts[i] = t /\ ps[i] = q})

FalseNegativeRateSwapped(ts, ps) ==
    Ratio(Confusion(ts, ps, 0, 1), Confusion(ts, ps, 1, 0) + Confusion(ts, ps, 1, 1))

TruePositiveRate(ts, ps) ==
    Ratio(Confusion(ts, ps, 1, 1), Confusion(ts, ps, 1, 1) + Confusion(ts, ps, 1, 0))

FalsePositiveRate(ts, ps) ==
    Ratio(Confusion(ts, ps, 0, 1), Confusion(ts, ps, 0, 1) + Confusion(ts, ps, 0, 0))

TrueNegativeRate(ts, ps) ==
    Ratio(Confusion(ts, ps, 0, 0), Confusion(ts, ps, 0, 0) + Confusion(ts, ps, 0, 1))

FalseNegativeRate(ts, ps) ==
    Ratio(Confusion(ts, ps, 1, 0), Confusion(ts, ps, 1, 0) + Confusion(ts, ps, 1, 1))

SelectionRate(ts, ps) == Ratio(Count(ps, 1), Len(ps))

AccuracyScore(ts, ps) ==
    Ratio(Confusion(ts, ps, 0, 0) + Confusion(ts, ps, 1, 1), Len(ps))

\* sklearn.metrics.precision_score(y_true, y_pred)
PrecisionScore(ts, ps) ==
    Ratio(Confusion(ts, ps, 1, 1), Confusion(ts, ps, 1, 1) + Confusion(ts, ps, 0, 1))

\* the subsequence of s at the positions where sens[i] = g
GroupOf(s, sens, g) ==
    LET pos == SortedSeq({i \in 1..Len(sens) : sens[i] = g})
    IN  [j \in 1..Len(pos) |-> s[pos[j]]]

\* metric_frame.by_group: the six metrics for every value of the sensitive
\* feature, each from the true and predicted labels of that group alone
Ability(y, predictions, sen_feat_test) ==
    [by_group |->
        [g \in Range(sen_feat_test) |->
            LET ts == GroupOf(y, sen_feat_test, g)
                ps == GroupOf(predictions, sen_feat_test, g)
            IN  [true_positive_rate_m  |-> TruePositiveRate(ts, ps),
                 false_positive_rate_m |-> FalsePositiveRate(ts, ps),
                 true_negative_rate_m  |-> TrueNegativeRate(ts, ps),
                 false_negative_rate_m |-> FalseNegativeRate(ts, ps),
                 selection_rate        |-> SelectionRate(ts, ps),
                 accuracy_score        |-> AccuracyScore(ts, ps)]]]

----------------------------------------------------------------------------
(* FairDetect.ability_metrics                                               *)

\* list_test, in the column order of by_group
ListTest == <<"true_positive_rate_m", "false_positive_rate_m",
              "true_negative_rate_m", "false_negative_rate_m">>

\* dic_met[key]: the metric's values over the groups
MetricList(metric_frame, key) ==
    LET gs == SortedSeq(DOMAIN metric_frame.by_group)
    IN  [j \in 1..Len(gs) |-> metric_frame.by_group[gs[j]][key]]

\* lines 291-294, then lines 296-304
AbilityMetrics(metric_frame) ==
    With([j \in 1..Len(ListTest) |->
            ChiSquareP(MetricList(metric_frame, ListTest[j]))], LAMBDA dic_p_val :
        [dic_p_val |-> dic_p_val,
         log |-> [j \in 1..Len(ListTest) |-> Ev("stat", "chisquare")]
                 \o [j \in 1..Len(ListTest) |->
                       EvVerdict("ability_metrics", ListTest[j], dic_p_val[j],
                                 AbilityVerdict(dic_p_val[j]))]])

----------------------------------------------------------------------------
(* FairDetect.predictive                                                    *)

\* precision_score over the rows stored under a name
PrecisionOf(frame) == PrecisionScore(Col(frame, "t"), Col(frame, "p"))

PredictiveResult(names, precision_dic) ==
    [raised |-> "", precision_dic |-> precision_dic,
     pred_p |-> ChiSquareP([j \in 1..Len(names) |-> precision_dic[names[j]]]),
     log |-> <<Ev("stat", "precision_score"), Ev("stat", "chisquare")>>]

Predictive(lbl, sens_df) ==
    With(NameOrder(lbl, Keys(lbl), {}), LAMBDA names :
        IF \E j \in 1..Len(names) : names[j] \notin DOMAIN sens_df
        THEN [raised |-> "KeyError", precision_dic |-> EmptyDict, pred_p |-> NaN,
              log |-> <<Ev("raise", "KeyError")>>]
        ELSE PredictiveResult(names,
                 [nm \in Range(names) |-> PrecisionOf(sens_df[nm])]))

----------------------------------------------------------------------------
(* FairDetect.identify_bias                                                 *)

ReportRepresentationVerdictFirst(rep) ==
    <<Ev("print", "REPRESENTATION"),
      EvVerdict("representation", Sensitive, rep.p, RepVerdict(rep.p)),
      Ev("chart", "rep_fig"), Ev("print", "cont_table")>>

\* lines 429-441
ReportRepresentation(rep) ==
    <<Ev("print", "REPRESENTATION"), Ev("chart", "rep_fig"),
      Ev("print", "cont_table"),
      EvVerdict("representation", Sensitive, rep.p, RepVerdict(rep.p))>>

\* lines 445-455
ReportPredictive(prd) ==
    <<Ev("print", "PREDICTIVE"), Ev("chart", "pred_fig"),
      EvVerdict("predictive", "precision", prd.pred_p, PredVerdict(prd.pred_p))>>

IdentifyFailed(exc, rep, log) ==
    [raised |-> exc, heap |-> rep.heap, log |-> log, rep |-> rep,
     precision_dic |-> EmptyDict, metric_frame |-> [by_group |-> <<>>]]

\* lines 457-460
IdentifyAbility(rep, prd, logD, y, predictions, sen_feat_test) ==
    With(Ability(y, predictions, sen_feat_test), LAMBDA metric_frame :
        [raised |-> "", heap |-> rep.heap,
         log |-> logD \o <<Ev("stat", "metric_frame")>>
                   \o AbilityMetrics(metric_frame).log
                   \o <<Ev("chart", "ability_plots")>>,
         rep |-> rep, precision_dic |-> prd.precision_dic,
         metric_frame |-> metric_frame])

\* lines 444-460
IdentifyPredictive(rep, logR, y, lbl, predictions, sen_feat_test) ==
    With(Predictive(lbl, rep.sens_df), LAMBDA prd :
        IF prd.raised # ""
        THEN IdentifyFailed(prd.raised, rep, logR \o prd.log)
        ELSE IdentifyAbility(rep, prd, logR \o prd.log \o ReportPredictive(prd),
                             y, predictions, sen_feat_test))

IdentifyBias(h0, y, m, lbl) ==
    With(Predict(m, h0["X_test"]), LAMBDA predictions :
    With(Representation(h0, "X_test", y, lbl, predictions), LAMBDA rep :
    With(<<Ev("call", "model.predict")>> \o rep.log, LAMBDA logR :
        IF rep.raised # ""
        THEN IdentifyFailed(rep.raised, rep, logR)
        ELSE IdentifyPredictive(rep, logR \o ReportRepresentation(rep), y, lbl,
                                predictions, Col(h0["X_test"], Sensitive)))))

----------------------------------------------------------------------------
(* FairDetect.understand_shap                                               *)

\* the rows of the affected group predicted as the affected target, the
\* correctly classified ones included
AffectedClassAllPredicted(full_table, affected_group, affected_target) ==
    Filter(full_table,
           AndMask(EqMask(Col(full_table, Sensitive), affected_group),
                   EqMask(Col(full_table, "p"), affected_target)))

\* lines 545-546 (and 559-560, 574-575): the misclassified rows of the
\* affected group that were predicted as the affected target
AffectedClass(full_table, affected_group, affected_target) ==
    With(Filter(full_table, NeMask(Col(full_table, "t"), Col(full_table, "p"))),
         LAMBDA misclass :
           Filter(misclass,
                  AndMask(EqMask(Col(misclass, Sensitive), affected_group),
                          EqMask(Col(misclass, "p"), affected_target))))

ShapResult(exc, h, log, cohorts, sampled) ==
    [raised |-> exc, heap |-> h,
     log |-> IF exc = "" THEN log ELSE Append(log, Ev("raise", exc)),
     cohorts |-> cohorts, sampled |-> sampled]

\* lines 535-542
ShapLog0 ==
    <<Ev("call", "shap.Explainer"), Ev("call", "model.predict"),
      Ev("call", "explainer")>>

\* lines 550-551
ShapLog1 ==
    ShapLog0 \o <<Ev("print", "Model Importance Comparison"),
                  Ev("chart", "importance_by_group")>>

\* lines 553-585
ShapLog3 ==
    ShapLog1 \o <<Ev("call", "explainer"), Ev("chart", "importance_affected"),
                  Ev("call", "model.predict"),
                  Ev("print", "Affected Attribute Comparison"),
                  Ev("print", "Average Comparison to True Class Members"),
                  Ev("chart", "comparison_true_class"),
                  Ev("print", "Average Comparison to All Members"),
                  Ev("chart", "comparison_all"),
                  Ev("print", "Random Affected Decision Process"),
                  Ev("call", "shap.Explainer"), Ev("call", "explainer")>>

\* lines 556-586: the second and third cohorts, and the sampled record
ShapSecondHalf(h2, ft, y, m, a1, affected_group, affected_target, k) ==
    With(SetItem(SetItem(h2, ft, "t", y), ft, "p", Predict(m, h2["X_test"])),
         LAMBDA h4 :
    With(AffectedClass(h4[ft], affected_group, affected_target), LAMBDA a2 :
    With(AffectedClass(h4[ft], affected_group, affected_target), LAMBDA a3 :
        IF Len(a3.rows) = 0
        THEN ShapResult("ValueError", h4, ShapLog3, <<a1, a2, a3>>, 0)
        ELSE ShapResult("", h4, Append(ShapLog3, Ev("chart", "waterfall")),
                        <<a1, a2, a3>>, a3.rows[k + 1].ix))))

\* the two group names taken by position: the first two keys of the map
CohortLabelsFaultByPosition(lbl) ==
    IF Len(Keys(lbl)) < 2 THEN "IndexError" ELSE ""

\* line 543: list(labels.keys())[0], then labels[0] and labels[1], which are
\* lookups by key; the fault the line raises, "" when it raises none
CohortLabelsFault(lbl) ==
    IF Keys(lbl) = <<>> THEN "IndexError"
    ELSE IF 0 \notin DOMAIN lbl \/ 1 \notin DOMAIN lbl THEN "KeyError"
    ELSE ""

\* explainer_fails: whether the explanation library faults on a frame
\* without rows; k: the number randrange draws
UnderstandShap(h0, y, m, lbl, affected_group, affected_target, explainer_fails, k) ==
    With(DataFrameCopy(h0, "X_test"), LAMBDA c0 :
    With(SetItem(SetItem(c0.heap, c0.ref, "t", y), c0.ref, "p",
                 Predict(m, c0.heap["X_test"])), LAMBDA h2 :
    With(AffectedClass(h2[c0.ref], affected_group, affected_target), LAMBDA a1 :
        IF CohortLabelsFault(lbl) # ""
        THEN ShapResult(CohortLabelsFault(lbl), h2, ShapLog0, <<>>, 0)
        ELSE IF Len(a1.rows) = 0 /\ explainer_fails
        THEN ShapResult("ExplainerError", h2, ShapLog1, <<a1>>, 0)
        ELSE ShapSecondHalf(h2, c0.ref, y, m, a1, affected_group,
                            affected_target, k))))

----------------------------------------------------------------------------
(* The audit as a state machine: the caller holds a model, a test set and a *)
(* label map, and calls the methods in any order.                           *)

Frames ==
    UNION {{[cols |-> {Sensitive},
             rows |-> [i \in 1..n |-> [ix |-> i, v |-> [c \in {Sensitive} |-> s[i]]]]]
              : s \in [1..n -> SensVals]} : n \in 1..MaxRows}

LabelMaps == UNION {[K -> Names] : K \in SUBSET SensVals}

Heap0 == [id \in {"X_test"} |-> X_test]

NoCall == [op |-> "none", group |-> 0, target |-> 0, p |-> NaN]

Called(op) == [op |-> op, group |-> 0, target |-> 0, p |-> NaN]

\* no call is under way: the caller is between two calls
Idle == call.op = "none"

Init ==
    /\ X_test \in Frames
    /\ y_test \in [1..Len(X_test.rows) -> Targets]
    /\ model \in [1..Len(X_test.rows) -> Targets]
    /\ labels \in LabelMaps
    /\ call = NoCall
    /\ ret = <<>>
    /\ out = <<>>

CallRepresentation ==
    \E r \in {Representation(Heap0, "X_test", y_test, labels, Predict(model, X_test))} :
        /\ Idle
        /\ call' = Called("representation")
        /\ ret' = [raised |-> r.raised, table |-> r.table, cont_table |-> r.cont_table,
                   sens_df |-> r.sens_df, p |-> r.p]
        /\ out' = r.log
        /\ X_test' = r.heap["X_test"]
        /\ UNCHANGED <<y_test, model, labels>>

CallAbility ==
    /\ Idle
    /\ call' = Called("ability")
    /\ ret' = [raised |-> "",
               metric_frame |-> Ability(y_test, Predict(model, X_test),
                                        Col(X_test, Sensitive))]
    /\ out' = <<Ev("stat", "metric_frame")>>
    /\ UNCHANGED <<X_test, y_test, model, labels>>

\* the caller passes the metric frame that ability returned
CallAbilityMetrics ==
    \E am \in {AbilityMetrics(Ability(y_test, Predict(model, X_test),
                                      Col(X_test, Sensitive)))} :
        /\ Idle
        /\ call' = Called("ability_metrics")
        /\ ret' = [raised |-> "", dic_p_val |-> am.dic_p_val]
        /\ out' = am.log
        /\ UNCHANGED <<X_test, y_test, model, labels>>

\* the caller passes the partition that representation returned
CallPredictive ==
    \E r \in {Representation(Heap0, "X_test", y_test, labels, Predict(model, X_test))} :
        /\ Idle
        /\ r.raised = ""
        /\ \E d \in {Predictive(labels, r.sens_df)} :
            /\ call' = Called("predictive")
            /\ ret' = [raised |-> d.raised, sens_df |-> r.sens_df,
                       precision_dic |-> d.precision_dic, pred_p |-> d.pred_p]
            /\ out' = d.log
        /\ UNCHANGED <<X_test, y_test, model, labels>>

CallIdentifyBias ==
    \E r \in {IdentifyBias(Heap0, y_test, model, labels)} :
        /\ Idle
        /\ call' = Called("identify_bias")
        /\ ret' = [raised |-> r.raised, table |-> r.rep.table,
                   cont_table |-> r.rep.cont_table, sens_df |-> r.rep.sens_df,
                   precision_dic |-> r.precision_dic,
                   metric_frame |-> r.metric_frame]
        /\ out' = r.log
        /\ X_test' = r.heap["X_test"]
        /\ UNCHANGED <<y_test, model, labels>>

\* the rows AffectedClass selects, for the guard on what randrange can draw
CohortSize(g, t) ==
    Cardinality({i \in 1..Len(X_test.rows) :
        /\ y_test[i] # model[i]
        /\ X_test.rows[i].v[Sensitive] = g
        /\ model[i] = t})

CallUnderstandShap ==
    \E g \in SensVals, t \in Targets, e \in BOOLEAN, k \in 0..(MaxRows - 1) :
        /\ Idle
        /\ k < Max2(1, CohortSize(g, t))
        /\ e => CohortSize(g, t) = 0
        /\ \E r \in {UnderstandShap(Heap0, y_test, model, labels, g, t, e, k)} :
            /\ call' = [op |-> "understand_shap", group |-> g, target |-> t, p |-> NaN]
            /\ ret' = [raised |-> r.raised, cohorts |-> r.cohorts, sampled |-> r.sampled]
            /\ out' = r.log
            /\ X_test' = r.heap["X_test"]
        /\ UNCHANGED <<y_test, model, labels>>

\* the user answers each prompt with one of the names
CallCreateLabels ==
    \E answers \in [1..Cardinality(Range(Col(X_test, Sensitive))) -> Names] :
        \E r \in {CreateLabels(X_test, answers)} :
            /\ Idle
            /\ call' = Called("create_labels")
            /\ ret' = [raised |-> r.raised, sensitive_label |-> r.sensitive_label]
            /\ out' = r.log
            /\ UNCHANGED <<X_test, y_test, model, labels>>

\* the call has returned (or raised) and the caller has its result: the
\* caller goes on to its next call
Return ==
    /\ ~Idle
    /\ call' = NoCall
    /\ ret' = <<>>
    /\ out' = <<>>
    /\ UNCHANGED <<X_test, y_test, model, labels>>

Next ==
    \/ CallRepresentation
    \/ CallAbility
    \/ CallAbilityMetrics
    \/ CallPredictive
    \/ CallIdentifyBias
    \/ CallUnderstandShap
    \/ CallCreateLabels
    \/ Return

Spec == Init /\ [][Next]_vars

----------------------------------------------------------------------------
(* The verdict cascades on their own: a p-value is drawn and each of the    *)
(* three sites prints its verdict for it.                                   *)

PValues == (0..PScale) \cup {NaN}

InitVerdict ==
    /\ X_test = [cols |-> {Sensitive},
                 rows |-> <<[ix |-> 1, v |-> [c \in {Sensitive} |-> 0]]>>]
    /\ y_test = <<0>>
    /\ model = <<0>>
    /\ labels = <<>>
    /\ call \in {[op |-> "none", group |-> 0, target |-> 0, p |-> p] : p \in PValues}
    /\ ret = <<>>
    /\ out = <<>>

\* lines 296-304, for one entry of dic_p_val
VerdictAbilityMetrics ==
    \E j \in 1..Len(ListTest) :
        /\ Idle
        /\ call' = [call EXCEPT !.op = "ability_metrics"]
        /\ out' = <<EvVerdict("ability_metrics", ListTest[j], call.p,
                              AbilityVerdict(call.p))>>
        /\ UNCHANGED <<X_test, y_test, model, labels, ret>>

\* lines 434-441
VerdictRepresentation ==
    /\ Idle
    /\ call' = [call EXCEPT !.op = "identify_bias"]
    /\ out' = <<EvVerdict("representation", Sensitive, call.p, RepVerdict(call.p))>>
    /\ UNCHANGED <<X_test, y_test, model, labels, ret>>

\* lines 448-455
VerdictPredictive ==
    /\ Idle
    /\ call' = [call EXCEPT !.op = "identify_bias"]
    /\ out' = <<EvVerdict("predictive", "precision", call.p, PredVerdict(call.p))>>
    /\ UNCHANGED <<X_test, y_test, model, labels, ret>>

NextVerdict ==
    \/ VerdictAbilityMetrics
    \/ VerdictRepresentation
    \/ VerdictPredictive

SpecVerdict == InitVerdict /\ [][NextVerdict]_vars

----------------------------------------------------------------------------
(* Properties                                                               *)

\* the confidence tier a printed verdict text states: 3 for rejection at
\* 99%, 2 at 95%, 1 at 90%, 0 for accepting the null hypothesis
Tier(text) ==
    CASE text \in {"With 99% Confidence Level, Reject H0",
                   "*** Reject H0: Significant Relation",
                   "*** Reject H0: Significant Predictive Disparity"} -> 3
      [] text \in {"With 95% Confidence Level, Reject H0",
                   "** Reject H0: Significant Relation",
                   "** Reject H0: Significant Predictive Disparity"} -> 2
      [] text \in {"With 90% Confidence Level, Reject H0",
                   "* Reject H0: Significant Relation",
                   "* Reject H0: Significant Predictive Disparity"} -> 1
      [] text \in {"Accept H0: Disparity is Not Detected",
                   "Accept H0: No Significant Relation",
                   "Accept H0: No Significant Predictive Disparity"} -> 0

\* the tier the verdict policy gives a defined p-value (p in units of 1/PScale)
PolicyTier(p) ==
    IF 100 * p <= PScale THEN 3
    ELSE IF 100 * p <= 5 * PScale THEN 2
    ELSE IF 10 * p <= PScale THEN 1
    ELSE 0

\* the text the named site prints for p
SiteVerdict(site, p) ==
    CASE site = "ability_metrics" -> AbilityVerdict(p)
      [] site = "representation" -> RepVerdict(p)
      [] site = "predictive" -> PredVerdict(p)

Verdicts == {i \in 1..Len(out) : out[i].kind = "verdict"}

\* C1: every verdict printed for a defined p-value, at any of the three
\* sites, states the tier of the policy (99% for p <= 0.01, 95% for
\* 0.01 < p <= 0.05, 90% for 0.05 < p <= 0.10, accept above), and no smaller
\* p-value gets a weaker tier at that site.
C1_VerdictTiers ==
    \A i \in Verdicts :
        out[i].p # NaN =>
            /\ Tier(out[i].text) = PolicyTier(out[i].p)
            /\ \A q \in 0..out[i].p :
                   Tier(SiteVerdict(out[i].what, q)) >= Tier(out[i].text)

\* a verdict of the representation site for a p-value in (0.01, 0.05]
C1_Witness ==
    \E i \in Verdicts :
        /\ out[i].what = "representation"
        /\ out[i].p # NaN
        /\ 100 * out[i].p > PScale
        /\ 100 * out[i].p <= 5 * PScale
        /\ Tier(out[i].text) = 2

----------------------------------------------------------------------------
(* State functions the properties below share *)

SensCol == Col(X_test, Sensitive)

Predictions == Predict(model, X_test)

Events(kind) == {i \in 1..Len(out) : out[i].kind = kind}

\* the positions of X_test in group g with true label t
GroupRows(g, t) == {i \in 1..Len(SensCol) : SensCol[i] = g /\ y_test[i] = t}

\* the label map names both 0 and 1, so line 543 of understand_shap passes
BinaryLabels == {0, 1} \subseteq DOMAIN labels

\* C2: a call of representation or identify_bias with a label map that omits
\* a value of the sensitive column raises, and no statistic is computed
\* before it does.
C2_ConfigErrorBeforeStatistics ==
    (/\ call.op \in {"representation", "identify_bias"}
     /\ \E i \in 1..Len(SensCol) : SensCol[i] \notin DOMAIN labels)
    => (ret.raised # "" /\ Events("stat") = {})

\* C3: understand_shap for a selector whose cohort is empty ends without a
\* fault of the interpreter or of a library (at most a dedicated empty-cohort
\* condition), samples no record and emits no chart.
C3_EmptyCohortReported ==
    (/\ call.op = "understand_shap"
     /\ BinaryLabels
     /\ CohortSize(call.group, call.target) = 0)
    => (/\ ret.raised \in {"", "EmptyCohort"}
        /\ ret.sampled = 0
        /\ Events("chart") = {})

\* a rate is the explicit undefined value
Undefined(r) == r.d = 0

\* the six verdicts of a full audit are all printed
AllVerdicts ==
    /\ \E i \in Verdicts : out[i].what = "representation"
    /\ \E i \in Verdicts : out[i].what = "predictive"
    /\ \A j \in 1..Len(ListTest) :
           \E i \in Verdicts : out[i].what = "ability_metrics" /\ out[i].key = ListTest[j]

\* C4: a rate whose denominator is zero (no row of the true-label class in
\* the subgroup; no positive prediction, for precision) is returned as the
\* undefined value, and a full audit that does not raise prints all verdicts.
C4_ZeroDenominatorUndefined ==
    /\ call.op = "ability" =>
         \A g \in DOMAIN ret.metric_frame.by_group :
             /\ GroupRows(g, 1) = {} =>
                  /\ Undefined(ret.metric_frame.by_group[g].true_positive_rate_m)
                  /\ Undefined(ret.metric_frame.by_group[g].false_negative_rate_m)
             /\ GroupRows(g, 0) = {} =>
                  /\ Undefined(ret.metric_frame.by_group[g].false_positive_rate_m)
                  /\ Undefined(ret.metric_frame.by_group[g].true_negative_rate_m)
    /\ (call.op = "predictive" /\ ret.raised = "") =>
         \A nm \in DOMAIN ret.precision_dic :
             1 \notin Range(Col(ret.sens_df[nm], "p")) => Undefined(ret.precision_dic[nm])
    /\ (call.op = "identify_bias" /\ ret.raised = "") => AllVerdicts

\* the selector names a group or a label that the data does not hold
SelectorAbsent(g, t) ==
    g \notin Range(SensCol) \/ t \notin (Range(y_test) \cup Range(Predictions))

\* what understand_shap does for the selectors that are in the data and have
\* no misclassified row: the exceptions and outputs it can end with
PresentEmptyOutcomes ==
    {[raised |-> r.raised, log |-> r.log] :
        r \in {UnderstandShap(Heap0, y_test, model, labels, sel[1], sel[2], sel[3], 0) :
                 sel \in {x \in SensVals \X Targets \X BOOLEAN :
                            ~SelectorAbsent(x[1], x[2]) /\ CohortSize(x[1], x[2]) = 0}}}

\* C5: understand_shap for a selector that is not in the data raises, and
\* what it raises and prints differs from every outcome of a selector that
\* is in the data and has no misclassified row.
C5_AbsentSelectorDistinct ==
    (/\ call.op = "understand_shap"
     /\ BinaryLabels
     /\ SelectorAbsent(call.group, call.target))
    => (/\ ret.raised # ""
        /\ [raised |-> ret.raised, log |-> out] \notin PresentEmptyOutcomes)

\* C6: the partition representation returns puts every row of X_test in
\* exactly one entry, and the entry of a name holds exactly the rows whose
\* sensitive value the label map gives that name.
C6_PartitionDisjointCover ==
    (call.op = "representation" /\ ret.raised = "") =>
        /\ \A i \in Index(X_test) :
               Cardinality({nm \in DOMAIN ret.sens_df : i \in Index(ret.sens_df[nm])}) = 1
        /\ \A nm \in DOMAIN ret.sens_df :
               Index(ret.sens_df[nm]) =
                   {i \in 1..Len(SensCol) :
                       SensCol[i] \in DOMAIN labels /\ labels[SensCol[i]] = nm}

\* the sum of the numerators of one row of a normalized table
RowNumerators(pct, g) ==
    SumSeq([j \in 1..Cardinality(DOMAIN pct[g]) |->
              pct[g][SortedSeq(DOMAIN pct[g])[j]].n])

\* C7: in the row-normalized table that representation returns, the entries
\* of a group's row share a positive denominator, the number of rows of the
\* group, and their numerators add up to it: the row sums to 1.
C7_RowsSumToOne ==
    (call.op \in {"representation", "identify_bias"} /\ ret.raised = "") =>
        \A g \in DOMAIN ret.cont_table :
            /\ \A c \in DOMAIN ret.cont_table[g] :
                   /\ ret.cont_table[g][c].d = Count(SensCol, g)
                   /\ ret.cont_table[g][c].d > 0
            /\ RowNumerators(ret.cont_table, g) = Count(SensCol, g)

\* representation returned the table of two groups over both target values
C7_Witness ==
    /\ call.op = "representation"
    /\ ret.raised = ""
    /\ Cardinality(DOMAIN ret.cont_table) = 2
    /\ \A g \in DOMAIN ret.cont_table : DOMAIN ret.cont_table[g] = {0, 1}

\* a + b = 1 for fractions a and b
SumsToOne(a, b) == a.n * b.d + b.n * a.d = a.d * b.d

\* C8: for a subgroup with rows of both true-label classes, the rates that
\* ability returns satisfy TPR + FNR = 1 and FPR + TNR = 1, the denominators
\* being the subgroup's positive and negative counts.
C8_RatesSumToOne ==
    call.op = "ability" =>
        \A g \in DOMAIN ret.metric_frame.by_group :
            (GroupRows(g, 1) # {} /\ GroupRows(g, 0) # {}) =>
                LET m == ret.metric_frame.by_group[g]
                IN  /\ SumsToOne(m.true_positive_rate_m, m.false_negative_rate_m)
                    /\ SumsToOne(m.false_positive_rate_m, m.true_negative_rate_m)
                    /\ m.true_positive_rate_m.d = Cardinality(GroupRows(g, 1))
                    /\ m.false_negative_rate_m.d = Cardinality(GroupRows(g, 1))
                    /\ m.false_positive_rate_m.d = Cardinality(GroupRows(g, 0))
                    /\ m.true_negative_rate_m.d = Cardinality(GroupRows(g, 0))

\* ability returned the rates of a subgroup with a positive row that was
\* predicted positive and a negative row that was predicted positive
C8_Witness ==
    /\ call.op = "ability"
    /\ \E g \in DOMAIN ret.metric_frame.by_group :
           /\ \E i \in GroupRows(g, 1) : model[i] = 1
           /\ \E i \in GroupRows(g, 0) : model[i] = 1

\* C9: no call changes the caller's X_test or y_test.
C9_CallerDataUnchanged == [][X_test' = X_test /\ y_test' = y_test]_vars

\* identify_bias and understand_shap have returned frames that carry the
\* columns 'p' and 't', and X_test still has the sensitive column alone
C9_Witness ==
    /\ X_test.cols = {Sensitive}
    /\ \/ /\ call.op = "identify_bias"
          /\ ret.raised = ""
          /\ \A nm \in DOMAIN ret.sens_df : {"p", "t"} \subseteq ret.sens_df[nm].cols
       \/ /\ call.op = "understand_shap"
          /\ ret.raised = ""
          /\ {"p", "t"} \subseteq ret.cohorts[3].cols

\* what an event is, without its p-value and text
Signature(log) == [i \in 1..Len(log) |-> <<log[i].kind, log[i].what, log[i].key>>]

IsPrefix(a, b) == Len(a) <= Len(b) /\ \A i \in 1..Len(a) : a[i] = b[i]

\* the events of a full audit in the order the claim gives them
AuditOrder ==
    <<  <<"call", "model.predict", "">>,
        <<"stat", "crosstab", "">>,
        <<"stat", "chi2_contingency", "">>,
        <<"stat", "crosstab_normalized", "">>,
        <<"stat", "frequencies", "">>,
        <<"stat", "chi2_contingency", "">>,
        <<"print", "REPRESENTATION", "">>,
        <<"chart", "rep_fig", "">>,
        <<"print", "cont_table", "">>,
        <<"verdict", "representation", Sensitive>>,
        <<"stat", "precision_score", "">>,
        <<"stat", "chisquare", "">>,
        <<"print", "PREDICTIVE", "">>,
        <<"chart", "pred_fig", "">>,
        <<"verdict", "predictive", "precision">>,
        <<"stat", "metric_frame", "">>,
        <<"stat", "chisquare", "">>,
        <<"stat", "chisquare", "">>,
        <<"stat", "chisquare", "">>,
        <<"stat", "chisquare", "">>,
        <<"verdict", "ability_metrics", "true_positive_rate_m">>,
        <<"verdict", "ability_metrics", "false_positive_rate_m">>,
        <<"verdict", "ability_metrics", "true_negative_rate_m">>,
        <<"verdict", "ability_metrics", "false_negative_rate_m">>,
        <<"chart", "ability_plots", "">>  >>

\* out without the exception that ended the call, if one did
Completed(log) ==
    IF log # <<>> /\ log[Len(log)].kind = "raise"
    THEN SubSeq(log, 1, Len(log) - 1) ELSE log

\* C10: what identify_bias computes and reports comes in the order
\* predictions, representation and its table and verdict, precision and its
\* verdict, rate metrics and their four verdicts: a run that raises stops
\* somewhere along that order, a run that returns went through all of it.
\* The model predicts once, precision is that of the partition
\* representation returned, and the rates are those of the same predictions.
C10_AuditOrder ==
    call.op = "identify_bias" =>
        /\ IsPrefix(Signature(Completed(out)), AuditOrder)
        /\ Cardinality({i \in Events("call") : out[i].what = "model.predict"}) = 1
        /\ ret.raised = "" =>
             /\ Signature(out) = AuditOrder
             /\ \A nm \in DOMAIN ret.precision_dic :
                    ret.precision_dic[nm] = PrecisionOf(ret.sens_df[nm])
             /\ DOMAIN ret.precision_dic = DOMAIN ret.sens_df
             /\ ret.metric_frame = Ability(y_test, Predictions, SensCol)

\* identify_bias has returned for a data set of two groups under two names
C10_Witness ==
    /\ call.op = "identify_bias"
    /\ ret.raised = ""
    /\ Cardinality(DOMAIN ret.sens_df) = 2
    /\ Cardinality(DOMAIN ret.metric_frame.by_group) = 2

----------------------------------------------------------------------------
(* The cohort of understand_shap *)

\* the positions of X_test that are misclassified, in group g and predicted t
CohortPositions(g, t) ==
    {i \in 1..Len(SensCol) :
        /\ Predictions[i] # y_test[i]
        /\ SensCol[i] = g
        /\ Predictions[i] = t}

\* C11: every cohort that a call of understand_shap computes (lines 545-546,
\* 559-560, 574-575) holds exactly the rows with predicted label # true
\* label, sensitive value = affected_group and predicted label =
\* affected_target, and the cohorts of one call are the same frame.
C11_CohortDefinition ==
    (call.op = "understand_shap" /\ ret.cohorts # <<>>) =>
        \A j \in 1..Len(ret.cohorts) :
            /\ Index(ret.cohorts[j])
                 = {X_test.rows[i].ix : i \in CohortPositions(call.group, call.target)}
            /\ \A n \in 1..Len(ret.cohorts[j].rows) :
                   LET r == ret.cohorts[j].rows[n] IN
                     /\ r.v["p"] # r.v["t"]
                     /\ r.v[Sensitive] = call.group
                     /\ r.v["p"] = call.target
            /\ ret.cohorts[j] = ret.cohorts[1]

\* a call that computed the cohort three times, found a row for it and left
\* out a correctly classified row of the same group and predicted label
C11_Witness ==
    /\ call.op = "understand_shap"
    /\ ret.raised = ""
    /\ Len(ret.cohorts) = 3
    /\ Len(ret.cohorts[3].rows) = 1
    /\ \E i \in 1..Len(SensCol) :
          /\ SensCol[i] = call.group
          /\ Predictions[i] = call.target
          /\ Predictions[i] = y_test[i]

----------------------------------------------------------------------------
(* The label map of create_labels *)

\* C12: the map create_labels returns has exactly the distinct values of the
\* sensitive column as keys, and no two values share a name.
C12_CreateLabelsOneToOne ==
    call.op = "create_labels" =>
        /\ DOMAIN ret.sensitive_label = Range(SensCol)
        /\ \A a, b \in DOMAIN ret.sensitive_label :
               ret.sensitive_label[a] = ret.sensitive_label[b] => a = b

----------------------------------------------------------------------------
(* The verdict for an undefined p-value *)

\* the final branch of the cascade of the named site
AcceptText(site) ==
    CASE site = "ability_metrics" -> "Accept H0: Disparity is Not Detected"
      [] site = "representation" -> "Accept H0: No Significant Relation"
      [] site = "predictive" -> "Accept H0: No Significant Predictive Disparity"

\* C13: a verdict printed for an undefined (NaN) p-value, at any of the three
\* sites, is the text of the final branch, "Accept H0": never a rejection
\* and never a text of its own.
C13_UndefinedPAccepted ==
    \A i \in Verdicts :
        out[i].p = NaN =>
            /\ out[i].text = AcceptText(out[i].what)
            /\ Tier(out[i].text) = 0

\* the precision site has printed its verdict for an undefined p-value
C13_Witness ==
    \E i \in Verdicts :
        /\ out[i].what = "predictive"
        /\ out[i].p = NaN
        /\ out[i].text = "Accept H0: No Significant Predictive Disparity"

----------------------------------------------------------------------------
(* Label maps whose keys are not 0 and 1 *)

LookupFaults == {"KeyError", "IndexError"}

\* the label map has a key other than 0 and 1, or more than two keys
NonBinaryKeys ==
    \/ \E k \in DOMAIN labels : k \notin {0, 1}
    \/ Cardinality(DOMAIN labels) > 2

====
